---- MODULE Spec2Model ----
(***************************************************************************)
(* Model of the spectrophotometer firmware S_Photometer.py: the LED        *)
(* controller, the photodiode sampler, the calibration store               *)
(* (machine_data.txt) and the two measurement cycles read_blank and        *)
(* read_sample, driven by the main loop that polls the two buttons.        *)
(*                                                                         *)
(* Voltages that the code rounds to 3 decimals are kept as integer         *)
(* millivolts; ratios of voltage differences are kept as exact fractions   *)
(* <<numerator, denominator>> in lowest terms with a positive denominator. *)
(* An uncaught Python exception ends the script: pc = "halted".            *)
(***************************************************************************)
EXTENDS Integers, Sequences, FiniteSets, TLC

(***************************************************************************)
(* Program constants                                                       *)
(***************************************************************************)
SWITCH_DEBOUNCE_PERIOD_MS == 250
LED_WARMUP_PERIOD_MS == 500
ADC_SETTLING_TIME_MS == 50
ADC_SAMPLE_COUNT == 20
ADC_MAX_COUNT == 4095
\* 3.3 V reference, in tenths of a volt
ADC_REF_DECIVOLTS == 33
\* rtc.datetime takes a tuple of exactly 8 integers
RTC_TUPLE_LEN == 8

(***************************************************************************)
(* Bounds of the model                                                     *)
(***************************************************************************)
\* the red transmission photodiode sees light levels 1..MaxTransLevel
MaxTransLevel == 3

Colours == {"Red", "Green", "Blue"}
PhaseOrder == <<"Dark", "Red", "Green", "Blue">>
Phases == {PhaseOrder[i] : i \in 1..Len(PhaseOrder)}

\* raw ADC count of light level k: k * 124 counts is k * 100 mV after rounding
RawOfLevel(k) == 124 * k

\* light levels the incident photodiode can see in a phase: with the LEDs off
\* level 1; with an LED on either level 1 (no more light than in the dark) or 5
IncidLevels(p) == IF p = "Dark" THEN {1} ELSE {1, 5}

\* light levels the transmission photodiode can see in a phase; under the
\* blue LED it may read less than in the dark, which makes a ratio negative
TransLevels(p) ==
    CASE p = "Dark" -> {1}
      [] p = "Red" -> 1..MaxTransLevel
      [] p = "Green" -> {2}
      [] p = "Blue" -> {0, 3}

\* the signal at an ADC input while one mean is taken: reading i gives adc[i]
SteadySignal(k) == [i \in 1..ADC_SAMPLE_COUNT |-> RawOfLevel(k)]

(***************************************************************************)
(* Arithmetic                                                              *)
(***************************************************************************)
Abs(x) == IF x < 0 THEN -x ELSE x

RECURSIVE GCD(_, _)
GCD(a, b) == IF b = 0 THEN a ELSE GCD(b, a % b)

\* the fraction n/d (d # 0) in lowest terms with a positive denominator
Frac(n, d) ==
    LET g == GCD(Abs(n), Abs(d))
        s == IF d < 0 THEN -1 ELSE 1
    IN  <<(s * n) \div g, (s * d) \div g>>

Zero == <<0, 1>>

\* nearest integer to n/d for n >= 0, d > 0
RoundDiv(n, d) == (2 * n + d) \div (2 * d)

RECURSIVE SumSeq(_)
SumSeq(s) == IF s = <<>> THEN 0 ELSE Head(s) + SumSeq(Tail(s))

(***************************************************************************)
(* Illumination controller                                                 *)
(***************************************************************************)
\* the LED outputs: a function from colour to the pin value 0 or 1
LedStates == [Colours -> {0, 1}]

Event(e, a) == [ev |-> e, arg |-> a]

turn_off_leds_keeps_blue(l) == [l EXCEPT !["Red"] = 0, !["Green"] = 0]

turn_off_leds(l) == [c \in Colours |-> 0]

turn_on_red_led(l) == [turn_off_leds(l) EXCEPT !["Red"] = 1]

turn_on_green_led_lights_blue(l) == [turn_off_leds(l) EXCEPT !["Blue"] = 1]

turn_on_green_led(l) == [turn_off_leds(l) EXCEPT !["Green"] = 1]

turn_on_blue_led(l) == [turn_off_leds(l) EXCEPT !["Blue"] = 1]

\* what turn_off_leds does on the pins and the clock, in order
turn_off_events == <<Event("leds_off", 0), Event("sleep_ms", ADC_SETTLING_TIME_MS)>>

\* what turn_on_<colour>_led does on the pins and the clock, in order
ColourPin == [Red |-> 0, Green |-> 15, Blue |-> 2]

turn_on_events_without_warmup(c) ==
    turn_off_events \o <<Event("led_on", ColourPin[c])>>

turn_on_events(c) ==
    turn_off_events \o <<Event("led_on", ColourPin[c]), Event("sleep_ms", LED_WARMUP_PERIOD_MS)>>

AllOff(l) == \A c \in Colours : l[c] = 0
OnlyOn(l, c) == l[c] = 1 /\ \A o \in Colours \ {c} : l[o] = 0

(***************************************************************************)
(* Photodiode sampler                                                      *)
(***************************************************************************)
\* voltage = adcVal / 4095.0 * 3.3, kept as the numerator over VoltDen
VoltDen == ADC_MAX_COUNT * 10
Voltage(adcVal) == adcVal * ADC_REF_DECIVOLTS

\* mean = round(total / n, 3), in millivolts
calculate_sample_statistics(sample_list) ==
    LET total == SumSeq(sample_list)
        n == Len(sample_list)
    IN  RoundDiv(1000 * total, n * VoltDen)

\* the loop "for i in range(0, ADC_SAMPLE_COUNT)" of the two sensor readers
RECURSIVE ReadLoop(_, _, _)
ReadLoop(i, sample, adc) ==
    IF i >= ADC_SAMPLE_COUNT THEN sample
    ELSE ReadLoop(i + 1, Append(sample, Voltage(adc[i + 1])), adc)

TransmissionSample_from_one(adc_trans) == ReadLoop(1, <<>>, adc_trans)

\* "sample=[]" and the loop of read_transmission_light_sensor: the list of
\* voltages the call has taken from adc_trans when the loop ends
TransmissionSample(adc_trans) == ReadLoop(0, <<>>, adc_trans)

\* the same for read_incident_light_sensor and adc_incid
IncidentSample(adc_incid) == ReadLoop(0, <<>>, adc_incid)

read_transmission_light_sensor(adc_trans) ==
    calculate_sample_statistics(TransmissionSample(adc_trans))

read_incident_light_sensor(adc_incid) ==
    calculate_sample_statistics(IncidentSample(adc_incid))

\* a mean that has not been taken yet in this cycle
NoReading == -1
NoReadings == [p \in Phases |-> NoReading]

(***************************************************************************)
(* Calibration store: machine_data and machine_data.txt                    *)
(***************************************************************************)
\* the keys of machine_data, in the order of the dictionary literal
KeyOrder ==
    <<"incid_dark_value", "trans_dark_value",
      "incid_empty_blue_value", "incid_empty_red_value", "incid_empty_green_value",
      "trans_empty_blue_value", "trans_empty_red_value", "trans_empty_green_value",
      "blank_value_red", "blank_value_green", "blank_value_blue",
      "last_blank_reading", "set_datetime", "set_rtc_datetime_to", "last_error">>

StringKeys == {"last_blank_reading", "set_datetime", "set_rtc_datetime_to", "last_error"}

BlankKey == [Red |-> "blank_value_red", Green |-> "blank_value_green",
             Blue |-> "blank_value_blue"]

\* a date string is kept as its sequence of characters
DefaultDateString ==
    <<"2", "0", "2", "2", ",", "7", ",", "1", "7", ",", "6", ",", "1", "2", ",",
      "4", "6", ",", "0", ",", "0">>

\* the global machine_data as the module body creates it
default_machine_data ==
    [k \in {KeyOrder[i] : i \in 1..Len(KeyOrder)} |->
        CASE k = "last_blank_reading" -> ""
          [] k = "set_datetime" -> "N"
          [] k = "set_rtc_datetime_to" -> DefaultDateString
          [] k = "last_error" -> "none"
          [] OTHER -> Zero]

\* json.dumps of one value: a number literal or a string literal
JsonToken(k, v) ==
    IF k \in StringKeys THEN [lit |-> "string", chars |-> v, num |-> Zero]
    ELSE [lit |-> "number", chars |-> "", num |-> v]

\* json.loads of one literal
JsonValue(t) == IF t.lit = "string" THEN t.chars ELSE t.num

PresentKeys(d) == SelectSeq(KeyOrder, LAMBDA k : k \in DOMAIN d)

json_dumps_drops_blue(d) ==
    LET keys == SelectSeq(PresentKeys(d), LAMBDA k : k # "blank_value_blue")
    IN  [i \in 1..Len(keys) |-> [key |-> keys[i], token |-> JsonToken(keys[i], d[keys[i]])]]

\* json.dumps(machine_data): the members of the JSON object, in order
json_dumps(d) ==
    LET keys == PresentKeys(d)
    IN  [i \in 1..Len(keys) |-> [key |-> keys[i], token |-> JsonToken(keys[i], d[keys[i]])]]

\* json.loads of a well-formed object text: the dictionary of its members
json_loads(members) ==
    [k \in {members[i].key : i \in 1..Len(members)} |->
        JsonValue((CHOOSE m \in {members[i] : i \in 1..Len(members)} : m.key = k).token)]

\* the file machine_data.txt: absent, or a text that is a well-formed JSON
\* object with these members, or a text cut short after these members
NoFile == [exists |-> FALSE, wellformed |-> FALSE, members |-> <<>>]
FileOf(d) == [exists |-> TRUE, wellformed |-> TRUE, members |-> json_dumps(d)]
CutFile(d, n) ==
    [exists |-> TRUE, wellformed |-> FALSE, members |-> SubSeq(json_dumps(d), 1, n)]

\* str.split(','): the fields of a character sequence
RECURSIVE SplitComma(_, _, _)
SplitComma(chars, field, fields) ==
    IF chars = <<>> THEN Append(fields, field)
    ELSE IF Head(chars) = "," THEN SplitComma(Tail(chars), <<>>, Append(fields, field))
    ELSE SplitComma(Tail(chars), Append(field, Head(chars)), fields)

DigitValue ==
    [c \in {"0", "1", "2", "3", "4", "5", "6", "7", "8", "9"} |->
        CASE c = "0" -> 0 [] c = "1" -> 1 [] c = "2" -> 2 [] c = "3" -> 3 [] c = "4" -> 4
          [] c = "5" -> 5 [] c = "6" -> 6 [] c = "7" -> 7 [] c = "8" -> 8 [] c = "9" -> 9]

\* int(field) raises ValueError unless the field is a non-empty digit string
IsIntLiteral(field) ==
    field # <<>> /\ \A i \in 1..Len(field) : field[i] \in DOMAIN DigitValue

RECURSIVE IntOf(_, _)
IntOf(field, acc) ==
    IF field = <<>> THEN acc ELSE IntOf(Tail(field), 10 * acc + DigitValue[Head(field)])

\* the real-time clock before anything set it
RtcUnset == <<>>

\* read_machine_data(): the value returned, and machine_data and the clock
\* after the call. Any exception is caught by the bare except: open() of an
\* absent file, json.loads of a malformed text, a missing key, int() of a
\* field that is no integer, rtc.datetime() of a list of the wrong length.
\* machine_data is assigned as soon as json.loads returns.
read_machine_data(f, md, clock) ==
    IF ~f.exists \/ ~f.wellformed
    THEN [ret |-> FALSE, machine_data |-> md, rtc |-> clock]
    ELSE
      LET loaded == json_loads(f.members)
          fields == SplitComma(loaded["set_rtc_datetime_to"], <<>>, <<>>)
      IN  IF "set_datetime" \notin DOMAIN loaded
          THEN [ret |-> FALSE, machine_data |-> loaded, rtc |-> clock]
          ELSE IF loaded["set_datetime"] # "Y"
          THEN [ret |-> TRUE, machine_data |-> loaded, rtc |-> clock]
          ELSE IF "set_rtc_datetime_to" \notin DOMAIN loaded
          THEN [ret |-> FALSE, machine_data |-> loaded, rtc |-> clock]
          ELSE IF \E i \in 1..Len(fields) : ~IsIntLiteral(fields[i])
          THEN [ret |-> FALSE, machine_data |-> loaded, rtc |-> clock]
          ELSE IF Len(fields) # RTC_TUPLE_LEN
          THEN [ret |-> FALSE, machine_data |-> loaded, rtc |-> clock]
          ELSE [ret |-> TRUE, machine_data |-> loaded,
                rtc |-> [i \in 1..Len(fields) |-> IntOf(fields[i], 0)]]

\* how a call of write_machine_data can go: open() raises and the file is as
\* it was; open() has emptied the file and write() raises, with nothing or
\* only a part of the text in the file; or all of it succeeds
WriteOutcomes == {"ok", "open_raises", "write_raises_empty", "write_raises_partial"}

\* write_machine_data(): the value returned and the file after the call
write_machine_data(f, md, outcome) ==
    CASE outcome = "ok" -> [ret |-> TRUE, file |-> FileOf(md)]
      [] outcome = "open_raises" -> [ret |-> FALSE, file |-> f]
      [] outcome = "write_raises_empty" -> [ret |-> FALSE, file |-> CutFile(md, 0)]
      [] outcome = "write_raises_partial" -> [ret |-> FALSE, file |-> CutFile(md, 1)]

(***************************************************************************)
(* Measurement sequencer: the statements of read_blank and read_sample     *)
(***************************************************************************)
\* the steps of one phase of a cycle, in the order of the statements:
\* lcd_display, turn_off_leds / turn_on_<colour>_led, the two sensor reads
\* and the trailing turn_off_leds (which read_sample does not have after Dark)
StagesOf_sample_leaves_blue_on(o, p) ==
    IF o = "sample" /\ p \in {"Dark", "Blue"}
    THEN <<"display", "select", "incid", "trans">>
    ELSE <<"display", "select", "incid", "trans", "off">>

StagesOf(o, p) ==
    IF o = "sample" /\ p = "Dark"
    THEN <<"display", "select", "incid", "trans">>
    ELSE <<"display", "select", "incid", "trans", "off">>

IndexIn(seq, x) == CHOOSE i \in 1..Len(seq) : seq[i] = x

\* the position after the step `st` of phase `p`
NextPos(o, p, st) ==
    LET stages == StagesOf(o, p)
        i == IndexIn(stages, st)
        j == IndexIn(PhaseOrder, p)
    IN  IF i < Len(stages) THEN [phase |-> p, stage |-> stages[i + 1]]
        ELSE IF j < Len(PhaseOrder) THEN [phase |-> PhaseOrder[j + 1], stage |-> "display"]
        ELSE [phase |-> "Computing", stage |-> "compute"]

\* the LED call that opens a phase
SelectLeds(p, l) ==
    CASE p = "Dark" -> turn_off_leds(l)
      [] p = "Red" -> turn_on_red_led(l)
      [] p = "Green" -> turn_on_green_led(l)
      [] p = "Blue" -> turn_on_blue_led(l)

SelectEvents(p) == IF p = "Dark" THEN turn_off_events ELSE turn_on_events(p)

\* what lcd_display shows: the top line, the first line of the second
\* element and, for the result block, the three formatted percentages
Lcd(top, status, values) == [top |-> top, status |-> status, values |-> values]
LcdBlank == Lcd("", "", <<>>)
LcdSplash == Lcd("  Spectrophotometer", "    Version: 1.6", <<>>)

PhaseStatus(o, p) ==
    IF o = "blank" THEN Lcd("Reading Blank", p, <<>>)
    ELSE Lcd("Reading Sample", IF p = "Dark" THEN "Dark" ELSE p \o " LED", <<>>)

ColourRatio_without_dark(inc, tr, c) == Frac(tr[c], inc[c])

\* (trans[c] - trans[Dark]) / (incid[c] - incid[Dark]); the caller has
\* checked that the denominator is not zero
ColourRatio(inc, tr, c) == Frac(tr[c] - tr["Dark"], inc[c] - inc["Dark"])

ZeroDenominator(inc, c) == inc[c] = inc["Dark"]

FormatPercent_without_abs(samp_value, blank_value) ==
    LET n == 10000 * samp_value[1] * blank_value[2]
        d == samp_value[2] * blank_value[1]
    IN  (IF (n < 0) # (d < 0) THEN -1 ELSE 1) * RoundDiv(Abs(n), Abs(d))

\* '{:.2f}'.format(abs(100 * samp_value / blank_value)), in hundredths of a
\* percent; blank_value is not zero
FormatPercent(samp_value, blank_value) ==
    RoundDiv(10000 * Abs(samp_value[1] * blank_value[2]),
             Abs(samp_value[2] * blank_value[1]))

\* machine_data[k] = v
DictSet(d, k, v) == [x \in DOMAIN d \cup {k} |-> IF x = k THEN v ELSE d[x]]

(***************************************************************************)
(* State                                                                   *)
(***************************************************************************)
VARIABLES
    pc,             \* "boot", "poll_blank", "poll_sample", "cycle" or "halted"
    op,             \* the cycle that runs or ran last: "none", "blank", "sample"
    phase,          \* the phase of the cycle, "Idle" outside a cycle
    stage,          \* the next statement of the phase
    leds,           \* the three LED outputs
    incid,          \* the incident means of the cycle, by phase, in mV
    trans,          \* the transmission means of the cycle, by phase, in mV
    machine_data,   \* the global dictionary
    file,           \* machine_data.txt
    rtc,            \* the real-time clock setting
    lcd,            \* what the display shows
    crash,          \* the exception that ended the script, or "none"
    returned,       \* what the cycle returned: "none" until it does, "True", "False"
    \* history, for the properties only
    ledsOffOnce,    \* turn_off_leds has been called since the boot
    sampled,        \* the phases whose pair of means was taken in this cycle
    log,            \* the LED, clock and ADC events of this cycle
    btn,            \* the last button detector call: samples and result
    tickOps,        \* the cycles started in this iteration of the main loop
    loaded,         \* the result of read_machine_data at this boot
    saved,          \* the result of the last write_machine_data and the file before it
    durable         \* the record of the last successful save, while the file holds it

vars == <<pc, op, phase, stage, leds, incid, trans, machine_data, file, rtc, lcd, crash,
          returned, ledsOffOnce, sampled, log, btn, tickOps, loaded, saved, durable>>

cycleVars == <<op, phase, stage, incid, trans, returned, sampled, log>>
storeVars == <<machine_data, file, rtc, loaded, saved, durable>>

NoButton == [button |-> "none", samples |-> <<>>, ret |-> FALSE]
NotLoaded == [done |-> FALSE, ret |-> FALSE, before |-> default_machine_data, rtc |-> RtcUnset]
NotSaved == [done |-> FALSE, ret |-> FALSE, before |-> NoFile]
NotDurable == [valid |-> FALSE, rec |-> default_machine_data]

\* a date string that int() rejects
BadDateString == <<"2", "0", "2", "2", ",", "x">>

\* records an operator may have put into machine_data.txt
DateRequested ==
    [default_machine_data EXCEPT !["set_datetime"] = "Y", !["blank_value_red"] = <<1, 4>>,
        !["blank_value_green"] = <<1, 4>>, !["blank_value_blue"] = <<1, 2>>]
BadDateRequested == [DateRequested EXCEPT !["set_rtc_datetime_to"] = BadDateString]

\* the file at the first boot: none, one of the operator's records, or a JSON
\* object without members
InitialFiles ==
    {NoFile, FileOf(DateRequested), FileOf(BadDateRequested),
     [exists |-> TRUE, wellformed |-> TRUE, members |-> <<>>]}

\* the state the module body leaves before line 553; the outputs of the LED
\* pins are whatever the reset left
Init ==
    /\ pc = "boot"
    /\ op = "none" /\ phase = "Idle" /\ stage = "idle"
    /\ leds \in LedStates
    /\ incid = NoReadings /\ trans = NoReadings
    /\ machine_data = default_machine_data
    /\ file \in InitialFiles
    /\ rtc = RtcUnset
    /\ lcd = LcdBlank
    /\ crash = "none"
    /\ returned = "none"
    /\ ledsOffOnce = FALSE
    /\ sampled = <<>>
    /\ log = <<>>
    /\ btn = NoButton
    /\ tickOps = <<>>
    /\ loaded = NotLoaded
    /\ saved = NotSaved
    /\ durable = NotDurable

(***************************************************************************)
(* Startup, lines 553-556, and the power switch                            *)
(***************************************************************************)
Boot ==
    /\ pc = "boot"
    /\ LET r == read_machine_data(file, machine_data, rtc)
       IN  /\ machine_data' = r.machine_data
           /\ rtc' = r.rtc
           /\ loaded' = [done |-> TRUE, ret |-> r.ret, before |-> machine_data, rtc |-> rtc]
    /\ lcd' = LcdSplash
    /\ pc' = "poll_blank"
    /\ UNCHANGED <<cycleVars, leds, file, crash, ledsOffOnce, btn, tickOps, saved, durable>>

\* power off and on again, while the device waits for a button or after the
\* script has stopped: the script starts anew; the file and the clock stay
PowerCycle ==
    /\ pc \in {"poll_blank", "poll_sample", "halted"}
    /\ pc' = "boot"
    /\ op' = "none" /\ phase' = "Idle" /\ stage' = "idle"
    /\ leds' \in LedStates
    /\ incid' = NoReadings /\ trans' = NoReadings
    /\ machine_data' = default_machine_data
    /\ lcd' = LcdBlank
    /\ crash' = "none"
    /\ returned' = "none"
    /\ ledsOffOnce' = FALSE
    /\ sampled' = <<>>
    /\ log' = <<>>
    /\ btn' = NoButton
    /\ tickOps' = <<>>
    /\ loaded' = NotLoaded
    /\ saved' = NotSaved
    /\ UNCHANGED <<file, rtc, durable>>

(***************************************************************************)
(* Main loop, lines 559-566                                                *)
(***************************************************************************)
\* the pin reads 0 while the button is held (pull-up input)
PinValues == {0, 1}

is_read_sample_button_pressed(first, second) ==
    IF first # 0 THEN (IF second # 0 THEN TRUE ELSE FALSE) ELSE FALSE

is_read_blank_ok_button_pressed(first, second) ==
    IF first # 0 THEN (IF second # 0 THEN TRUE ELSE FALSE) ELSE FALSE

\* the samples a detector took: the second only after a non-zero first
SamplesTaken(first, second) == IF first # 0 THEN <<first, second>> ELSE <<first>>

\* where the main loop goes on when a cycle returns: after read_blank at the
\* second "if" of the same iteration, after read_sample at the next iteration
ReturnTo_next_iteration(o) == "poll_blank"

ReturnTo(o) == IF o = "blank" THEN "poll_sample" ELSE "poll_blank"

StartCycle(o) ==
    /\ pc' = "cycle"
    /\ op' = o /\ phase' = "Dark" /\ stage' = "display"
    /\ incid' = NoReadings /\ trans' = NoReadings
    /\ returned' = "none"
    /\ sampled' = <<>>
    /\ log' = <<>>

LeaveIdle ==
    /\ op' = "none" /\ phase' = "Idle" /\ stage' = "idle"
    /\ incid' = NoReadings /\ trans' = NoReadings
    /\ returned' = "none"
    /\ sampled' = <<>>
    /\ log' = <<>>

\* control is at the first "if" of the loop body (line 560): the loop was
\* entered or the previous iteration has ended, read_sample included
AtBlankCheck == pc = "poll_blank"

\* control is at the second "if" of the loop body (line 564): the first "if"
\* is over, read_blank included
AtSampleCheck_any_time == pc \in {"poll_sample", "cycle"}

AtSampleCheck == pc = "poll_sample"

\* line 560: if is_read_blank_ok_button_pressed(): read_blank()
PollBlank ==
    /\ AtBlankCheck
    /\ \E first \in PinValues, second \in PinValues :
         LET ret == is_read_blank_ok_button_pressed(first, second)
         IN  /\ btn' = [button |-> "blank", samples |-> SamplesTaken(first, second),
                        ret |-> ret]
             /\ IF ret
                THEN StartCycle("blank") /\ tickOps' = <<"blank">>
                ELSE LeaveIdle /\ pc' = ReturnTo("blank") /\ tickOps' = <<>>
    /\ saved' = NotSaved
    /\ UNCHANGED <<leds, machine_data, file, rtc, lcd, crash, ledsOffOnce, loaded, durable>>

\* line 564: if is_read_sample_button_pressed(): read_sample()
PollSample ==
    /\ AtSampleCheck
    /\ \E first \in PinValues, second \in PinValues :
         LET ret == is_read_sample_button_pressed(first, second)
         IN  /\ btn' = [button |-> "sample", samples |-> SamplesTaken(first, second),
                        ret |-> ret]
             /\ IF ret
                THEN StartCycle("sample") /\ tickOps' = Append(tickOps, "sample")
                ELSE LeaveIdle /\ pc' = ReturnTo("sample") /\ tickOps' = tickOps
    /\ saved' = NotSaved
    /\ UNCHANGED <<leds, machine_data, file, rtc, lcd, crash, ledsOffOnce, loaded, durable>>

(***************************************************************************)
(* The statements of a cycle, lines 441-463 and 496-519                    *)
(***************************************************************************)
Advance(st) ==
    LET n == NextPos(op, phase, st)
    IN  phase' = n.phase /\ stage' = n.stage

\* lcd_display(['Reading Blank', ...]) / lcd_display(['Reading Sample', ...])
CycleDisplay ==
    /\ pc = "cycle" /\ stage = "display"
    /\ lcd' = PhaseStatus(op, phase)
    /\ Advance("display")
    /\ UNCHANGED <<pc, op, leds, incid, trans, crash, returned, ledsOffOnce, sampled, log,
                   btn, tickOps, storeVars>>

\* turn_off_leds() before the Dark readings, turn_on_<colour>_led() before the others
CycleSelect ==
    /\ pc = "cycle" /\ stage = "select"
    /\ leds' = SelectLeds(phase, leds)
    /\ ledsOffOnce' = TRUE
    /\ log' = log \o SelectEvents(phase)
    /\ Advance("select")
    /\ UNCHANGED <<pc, op, incid, trans, lcd, crash, returned, sampled, btn, tickOps,
                   storeVars>>

\* <op>_<phase>_incid = read_incident_light_sensor()
CycleReadIncident ==
    /\ pc = "cycle" /\ stage = "incid"
    /\ \E k \in IncidLevels(phase) :
         /\ incid' = [incid EXCEPT ![phase] = read_incident_light_sensor(SteadySignal(k))]
         /\ log' = Append(log, Event("adc_incid", Len(IncidentSample(SteadySignal(k)))))
    /\ Advance("incid")
    /\ UNCHANGED <<pc, op, leds, trans, lcd, crash, returned, ledsOffOnce, sampled, btn,
                   tickOps, storeVars>>

\* <op>_<phase>_trans = read_transmission_light_sensor()
CycleReadTransmission ==
    /\ pc = "cycle" /\ stage = "trans"
    /\ \E k \in TransLevels(phase) :
         /\ trans' = [trans EXCEPT ![phase] = read_transmission_light_sensor(SteadySignal(k))]
         /\ log' = Append(log, Event("adc_trans", Len(TransmissionSample(SteadySignal(k)))))
    /\ sampled' = Append(sampled, phase)
    /\ Advance("trans")
    /\ UNCHANGED <<pc, op, leds, incid, lcd, crash, returned, ledsOffOnce, btn, tickOps,
                   storeVars>>

\* the turn_off_leds() that closes a phase
CycleOff ==
    /\ pc = "cycle" /\ stage = "off"
    /\ leds' = turn_off_leds(leds)
    /\ ledsOffOnce' = TRUE
    /\ log' = log \o turn_off_events
    /\ Advance("off")
    /\ UNCHANGED <<pc, op, incid, trans, lcd, crash, returned, sampled, btn, tickOps,
                   storeVars>>

\* an exception nobody catches ends the script
Halt(exception) ==
    /\ pc' = "halted"
    /\ crash' = exception
    /\ returned' = "none"

(***************************************************************************)
(* read_blank, lines 465-480                                               *)
(***************************************************************************)
\* lines 474-480: the status shown and the value returned after
\* write_machine_data() returned `written`
BlankOutcome_always_complete(written) == [status |-> "complete", returned |-> "True"]

BlankOutcome(written) ==
    IF written THEN [status |-> "complete", returned |-> "True"]
    ELSE [status |-> "failed", returned |-> "False"]

Statement(d, c) == [do |-> d, colour |-> c]

BlankStatements_store_as_computed ==
    <<Statement("divide", "Red"), Statement("store", "Red"),
      Statement("divide", "Green"), Statement("store", "Green"),
      Statement("divide", "Blue"), Statement("store", "Blue")>>

\* lines 465-472 in program order: the three divisions into local variables,
\* then the three assignments into machine_data
BlankStatements ==
    <<Statement("divide", "Red"), Statement("divide", "Green"),
      Statement("divide", "Blue"),
      Statement("store", "Red"), Statement("store", "Green"),
      Statement("store", "Blue")>>

\* runs stmts from the i-th on; st holds the local blank_value_<colour>
\* variables, the dictionary, and whether a division has raised, which ends
\* the run where it stands
RECURSIVE RunStatements(_, _, _, _, _)
RunStatements(stmts, i, st, inc, tr) ==
    IF i > Len(stmts) \/ st.raised THEN st
    ELSE LET s == stmts[i]
         IN  IF s.do = "divide"
             THEN IF ZeroDenominator(inc, s.colour)
                  THEN [st EXCEPT !.raised = TRUE]
                  ELSE RunStatements(stmts, i + 1,
                           [st EXCEPT !.locals =
                               DictSet(@, s.colour, ColourRatio(inc, tr, s.colour))],
                           inc, tr)
             ELSE RunStatements(stmts, i + 1,
                      [st EXCEPT !.machine_data =
                          DictSet(@, BlankKey[s.colour], st.locals[s.colour])],
                      inc, tr)

BlankCompute ==
    /\ pc = "cycle" /\ op = "blank" /\ stage = "compute"
    /\ LET run == RunStatements(BlankStatements, 1,
                      [raised |-> FALSE, locals |-> <<>>,
                       machine_data |-> machine_data], incid, trans)
       IN
       IF run.raised
       THEN /\ Halt("ZeroDivisionError")
            /\ machine_data' = run.machine_data
            /\ UNCHANGED <<file, lcd, saved, durable>>
       ELSE \E outcome \in WriteOutcomes :
              LET md == run.machine_data
                  w == write_machine_data(file, md, outcome)
              IN  /\ machine_data' = md
                  /\ file' = w.file
                  /\ saved' = [done |-> TRUE, ret |-> w.ret, before |-> file]
                  /\ durable' = IF w.ret THEN [valid |-> TRUE, rec |-> md]
                                ELSE IF w.file = file THEN durable
                                ELSE NotDurable
                  /\ lcd' = Lcd("Reading Blank", BlankOutcome(w.ret).status, <<>>)
                  /\ returned' = BlankOutcome(w.ret).returned
                  /\ pc' = ReturnTo("blank")
                  /\ crash' = crash
    /\ phase' = "Done" /\ stage' = "idle"
    /\ UNCHANGED <<op, leds, incid, trans, rtc, ledsOffOnce, sampled, log, btn, tickOps,
                   loaded>>

(***************************************************************************)
(* read_sample, lines 521-541                                              *)
(***************************************************************************)
\* what lines 521-541 do to the calibration store: there is no assignment to
\* machine_data and no call of write_machine_data in read_sample
SampleLeavesStore_saves ==
    /\ file' = FileOf(machine_data)
    /\ UNCHANGED <<machine_data, rtc, loaded, saved, durable>>

SampleLeavesStore == UNCHANGED storeVars

\* the order in which lines 525-527 divide by the stored blank values
BlankUseOrder == <<"Red", "Blue", "Green">>

\* the first of lines 525-527 that raises, as an index of BlankUseOrder, or 0
FirstBlankFailure(md) ==
    LET bad == {i \in 1..Len(BlankUseOrder) :
                  \/ BlankKey[BlankUseOrder[i]] \notin DOMAIN md
                  \/ md[BlankKey[BlankUseOrder[i]]] = Zero}
    IN  IF bad = {} THEN 0 ELSE CHOOSE i \in bad : \A j \in bad : i <= j

SampleCompute ==
    /\ pc = "cycle" /\ op = "sample" /\ stage = "compute"
    /\ LET f == FirstBlankFailure(machine_data)
       IN  IF \E c \in Colours : ZeroDenominator(incid, c)
           THEN Halt("ZeroDivisionError") /\ lcd' = lcd
           ELSE IF f # 0
           THEN /\ Halt(IF BlankKey[BlankUseOrder[f]] \notin DOMAIN machine_data
                        THEN "KeyError" ELSE "ZeroDivisionError")
                /\ lcd' = lcd
           ELSE /\ lcd' = Lcd("Transmission Values", "Red:",
                              <<FormatPercent(ColourRatio(incid, trans, "Red"),
                                              machine_data["blank_value_red"]),
                                FormatPercent(ColourRatio(incid, trans, "Green"),
                                              machine_data["blank_value_green"]),
                                FormatPercent(ColourRatio(incid, trans, "Blue"),
                                              machine_data["blank_value_blue"])>>)
                /\ returned' = "True"
                /\ pc' = ReturnTo("sample")
                /\ crash' = crash
    /\ phase' = "Done" /\ stage' = "idle"
    /\ SampleLeavesStore
    /\ UNCHANGED <<op, leds, incid, trans, ledsOffOnce, sampled, log, btn, tickOps>>

Next ==
    \/ Boot
    \/ PowerCycle
    \/ PollBlank
    \/ PollSample
    \/ CycleDisplay
    \/ CycleSelect
    \/ CycleReadIncident
    \/ CycleReadTransmission
    \/ CycleOff
    \/ BlankCompute
    \/ SampleCompute

Spec == Init /\ [][Next]_vars

(***************************************************************************)
(* Properties                                                              *)
(***************************************************************************)
LedsOn == {c \in Colours : leds[c] = 1}

\* the state right after the startup load, before any cycle of this boot
JustLoaded == loaded.done /\ pc = "poll_blank" /\ lcd = LcdSplash

\* a cycle has ended, by returning or by an exception
CycleEnded(o) == op = o /\ phase = "Done"

\* C1: once turn_off_leds has been called, at most one of the three LEDs is
\* on in every state, whatever blank and sample cycles follow.
C1_AtMostOneLedOn == ledsOffOnce => Cardinality(LedsOn) <= 1

C1_Witness ==
    /\ ledsOffOnce /\ pc = "cycle" /\ op = "sample"
    /\ tickOps = <<"blank", "sample">>
    /\ LedsOn = {"Blue"}

\* C2: a cycle takes the pairs of means of Dark, Red, Green, Blue in this
\* order, each once; the LEDs are all off while the Dark pair is taken, and
\* all off after the Blue pair, when the ratios are computed.
C2_FourPhasesInOrder ==
    /\ pc = "cycle" =>
         /\ \E n \in 0..Len(PhaseOrder) : sampled = SubSeq(PhaseOrder, 1, n)
         /\ phase \in Phases => Len(sampled) = IndexIn(PhaseOrder, phase)
                                   - (IF stage = "off" THEN 0 ELSE 1)
    /\ (pc = "cycle" /\ phase = "Dark" /\ stage \in {"incid", "trans"}) => AllOff(leds)
    /\ (stage = "compute" \/ phase = "Done") => (sampled = PhaseOrder /\ AllOff(leds))

C2_Witness ==
    /\ pc = "cycle" /\ op = "sample" /\ stage = "compute"
    /\ sampled = PhaseOrder /\ AllOff(leds)

\* C3: whenever a sensor is about to be read in a cycle, the LEDs match the
\* phase the mean is stored under: all off for Dark, only the LED of colour c
\* on for colour c, in read_blank and in read_sample alike.
C3_LedsMatchPhase ==
    (pc = "cycle" /\ stage \in {"incid", "trans"}) =>
        IF phase = "Dark" THEN AllOff(leds) ELSE OnlyOn(leds, phase)

C3_Witness ==
    /\ pc = "cycle" /\ op = "blank" /\ phase = "Green" /\ stage = "trans"
    /\ OnlyOn(leds, "Green")

\* the display shows the block of three percentages
ShowsResults == lcd.top = "Transmission Values" /\ Len(lcd.values) = Cardinality(Colours)

\* the display shows the terminal status of a blank cycle
ShowsBlankStatus == lcd.top = "Reading Blank" /\ lcd.status \in {"complete", "failed"}

\* the stored blank ratio of some colour is zero
SomeBlankZero ==
    \E c \in Colours : BlankKey[c] \in DOMAIN machine_data /\ machine_data[BlankKey[c]] = Zero

NoZeroDenominator == \A c \in Colours : ~ZeroDenominator(incid, c)

\* C4: a sample cycle that runs with a stored blank ratio of zero (as on the
\* first boot, with the default record) is not aborted: it ends with the
\* three results on the display and the script still running.
C4_ZeroBlankStillReports ==
    (CycleEnded("sample") /\ NoZeroDenominator /\ SomeBlankZero) =>
        (pc # "halted" /\ ShowsResults)

\* C5: a cycle in which the incident mean of some colour equals the incident
\* mean of Dark still ends normally, with a result on the display.
C5_DegenerateColourStillReports ==
    (/\ phase = "Done" /\ op \in {"blank", "sample"}
     /\ \E c \in Colours : ZeroDenominator(incid, c)
     /\ op = "sample" => FirstBlankFailure(machine_data) = 0) =>
        (/\ pc # "halted"
         /\ IF op = "sample" THEN ShowsResults ELSE ShowsBlankStatus)

LoadOf(f) == read_machine_data(f, default_machine_data, RtcUnset)

\* C7: a save that fails leaves the persisted record as it was: when the file
\* held a record that loads, the file is unchanged by the failed save and a
\* load after it gives what a load before it gave.
C7_FailedSaveKeepsRecord ==
    (saved.done /\ ~saved.ret /\ LoadOf(saved.before).ret) =>
        (file = saved.before /\ LoadOf(file) = LoadOf(saved.before))

\* C8: when the startup load fails (no file, or a record that cannot be
\* loaded), the script goes on to the main loop with machine_data equal to
\* the defaults.
C8_FailedLoadKeepsDefaults ==
    (JustLoaded /\ ~loaded.ret) => (crash = "none" /\ machine_data = default_machine_data)

\* the record in the file asks for the clock to be set with a value that
\* int() or rtc.datetime() rejects
MalformedDateRequest(f) ==
    /\ f.exists /\ f.wellformed
    /\ LET d == json_loads(f.members)
       IN  /\ {"set_datetime", "set_rtc_datetime_to"} \subseteq DOMAIN d
           /\ d["set_datetime"] = "Y"
           /\ LET fields == SplitComma(d["set_rtc_datetime_to"], <<>>, <<>>)
              IN  \/ \E i \in 1..Len(fields) : ~IsIntLiteral(fields[i])
                  \/ Len(fields) # RTC_TUPLE_LEN

\* C9: a load of a record with set_datetime = 'Y' and a malformed date
\* returns False and applies nothing: machine_data and the clock are as
\* before the call.
C9_MalformedDateAppliesNothing ==
    (JustLoaded /\ MalformedDateRequest(file)) =>
        (~loaded.ret /\ machine_data = loaded.before /\ rtc = loaded.rtc)

C11_BlankSucceedsIffSaved ==
    (CycleEnded("blank") /\ pc # "halted") =>
        /\ saved.done
        /\ saved.ret <=> (returned = "True" /\ lcd = Lcd("Reading Blank", "complete", <<>>))
        /\ ~saved.ret <=> (returned = "False" /\ lcd = Lcd("Reading Blank", "failed", <<>>))
        /\ saved.ret => file = FileOf(machine_data)

C11_Witness ==
    /\ CycleEnded("blank") /\ saved.done /\ ~saved.ret
    /\ returned = "False" /\ lcd.status = "failed"
    /\ file = saved.before /\ file.wellformed

\* C12: a blank cycle that has stopped, normally or on a failure, leaves a
\* terminal status, 'complete' or 'failed', on the display and never the
\* status of one of its phases.
C12_BlankEndsOnTerminalStatus ==
    CycleEnded("blank") => (lcd.top = "Reading Blank" /\ lcd.status \notin Phases
                            /\ lcd.status \in {"complete", "failed"})

\* a step of a sample cycle, and the step of a blank cycle that runs lines 465-480
SampleCycleStep == pc = "cycle" /\ op = "sample"
BlankComputeStep == pc = "cycle" /\ op = "blank" /\ stage = "compute"

\* C13: no step of a sample cycle changes machine_data or machine_data.txt;
\* after the startup load they change only in the step of a blank cycle that
\* assigns the new ratios and saves them.
C13_SampleNeverWritesStore ==
    [][/\ SampleCycleStep => (machine_data' = machine_data /\ file' = file)
       /\ (machine_data' # machine_data \/ file' # file) =>
             (pc = "boot" \/ pc' = "boot" \/ BlankComputeStep)]_vars

C13_Witness ==
    /\ CycleEnded("sample") /\ returned = "True" /\ ShowsResults
    /\ durable.valid /\ file = FileOf(machine_data)
    /\ machine_data # default_machine_data

\* C14: while a cycle is in progress no button detector is called and no
\* other cycle starts: the cycle that runs is the one the last detector call
\* started, and each of its steps leaves the detector record, the started
\* cycles and the running cycle as they are and ends in the cycle, at its
\* return or at an exception.
C14_NoPollDuringCycle ==
    [][pc = "cycle" =>
          /\ op \in {"blank", "sample"} /\ btn.ret /\ btn.button = op
          /\ btn' = btn /\ tickOps' = tickOps /\ op' = op
          /\ pc' \in {"cycle", "halted", ReturnTo(op)}
          /\ pc' = "cycle" => phase' \in Phases \cup {"Computing"}
          /\ pc' # "cycle" => phase' = "Done"]_vars

C14_Witness ==
    /\ pc = "cycle" /\ op = "sample" /\ phase = "Green" /\ stage = "incid"
    /\ tickOps = <<"blank", "sample">>
    /\ btn = [button |-> "sample", samples |-> <<1, 1>>, ret |-> TRUE]

\* C15: a button detector returns True exactly when its active-low input
\* reads low, the button held, at both samples taken 250 ms apart, and False
\* in every other case.
C15_TrueIffHeldLow ==
    btn.button \in {"blank", "sample"} =>
        (btn.ret <=> (Len(btn.samples) = 2 /\ btn.samples[1] = 0 /\ btn.samples[2] = 0))

\* the events of the log that are ADC means
IsAdc(e) == e.ev \in {"adc_incid", "adc_trans"}

\* C16: in the events of a cycle every switching-on of an LED comes right
\* after all LEDs were forced off and a 50 ms wait, and is followed by a
\* 500 ms wait and only then by the first sensor reading of the phase; every
\* forcing off is followed by the 50 ms wait alone, never by a 500 ms wait
\* unless an LED was switched on in between.
C16_SettleAndWarmUp ==
    \A i \in 1..Len(log) :
        /\ log[i].ev = "led_on" =>
              /\ i >= 3
              /\ log[i - 2] = Event("leds_off", 0)
              /\ log[i - 1] = Event("sleep_ms", 50)
              /\ i + 1 <= Len(log) /\ log[i + 1] = Event("sleep_ms", 500)
              /\ i + 2 <= Len(log) => log[i + 2].ev = "adc_incid"
        /\ log[i].ev = "leds_off" =>
              /\ i + 1 <= Len(log) /\ log[i + 1] = Event("sleep_ms", 50)
              /\ i + 2 <= Len(log) => log[i + 2].ev # "sleep_ms"
        /\ log[i] = Event("sleep_ms", 500) => (i >= 2 /\ log[i - 1].ev = "led_on")
        /\ IsAdc(log[i]) =>
              /\ i >= 2
              /\ log[i].ev = "adc_incid" => log[i - 1].ev = "sleep_ms"
              /\ log[i].ev = "adc_trans" => log[i - 1].ev = "adc_incid"

C16_Witness ==
    /\ CycleEnded("sample") /\ pc = "poll_blank"
    /\ Cardinality({i \in 1..Len(log) : log[i].ev = "led_on"}) = 3
    /\ Cardinality({i \in 1..Len(log) : log[i] = Event("sleep_ms", 500)}) = 3
    /\ Cardinality({i \in 1..Len(log) : log[i] = Event("sleep_ms", 50)}) = 7

\* the difference of the means of colour c and of Dark taken in this cycle
TransRise(c) == trans[c] - trans["Dark"]
IncidRise(c) == incid[c] - incid["Dark"]

\* the readings of the example: dark = (0.10 V, 0.10 V), red incident 0.50 V
ExampleReadings(redTrans) ==
    /\ incid["Dark"] = 100 /\ trans["Dark"] = 100
    /\ incid["Red"] = 500 /\ trans["Red"] = redTrans

\* C17: after a blank cycle that returned, each stored blank ratio of colour
\* c is (trans[c] - trans[Dark]) / (incid[c] - incid[Dark]) of the readings
\* of this very cycle, in machine_data and, when the save succeeded, in the
\* file; with dark = (0.10, 0.10) and red = (0.50, 0.30) the red ratio is 1/2.
C17_BlankRatioFormula ==
    (CycleEnded("blank") /\ pc # "halted") =>
        /\ \A c \in Colours :
              LET v == machine_data[BlankKey[c]]
              IN  /\ v[2] > 0
                  /\ v[1] * IncidRise(c) = v[2] * TransRise(c)
                  /\ saved.ret => json_loads(file.members)[BlankKey[c]] = v
        /\ ExampleReadings(300) => machine_data["blank_value_red"] = <<1, 2>>

C17_Witness ==
    /\ CycleEnded("blank") /\ returned = "True"
    /\ ExampleReadings(300)
    /\ machine_data["blank_value_red"] = <<1, 2>>
    /\ json_loads(file.members)["blank_value_red"] = <<1, 2>>

ResultOrder == <<"Red", "Green", "Blue">>

AdcEvents == SelectSeq(log, IsAdc)

\* C19: each sensor read of a cycle takes exactly 20 readings; the reads of
\* a cycle alternate incident, transmission, one pair per phase, and a cycle
\* that has read its four phases has taken 8 * 20 = 160 readings.
C19_TwentyPlusTwentyPerPhase ==
    /\ \A i \in 1..Len(AdcEvents) :
          /\ AdcEvents[i].arg = 20
          /\ AdcEvents[i].ev = IF i % 2 = 1 THEN "adc_incid" ELSE "adc_trans"
    /\ 2 * Len(sampled) <= Len(AdcEvents) /\ Len(AdcEvents) <= 2 * Len(sampled) + 1
    /\ (phase = "Done" \/ (pc = "cycle" /\ stage = "compute")) =>
          /\ Len(AdcEvents) = 8
          /\ SumSeq([i \in 1..Len(AdcEvents) |-> AdcEvents[i].arg]) = 160

C19_Witness ==
    /\ CycleEnded("blank") /\ returned = "True"
    /\ Len(AdcEvents) = 8
    /\ \A i \in 1..8 : AdcEvents[i].arg = 20

\* C20: the step of a blank cycle that follows the four phases either leaves
\* machine_data and the file as they were and attempts no save (some
\* denominator is zero), or replaces all three blank ratios by this cycle's
\* and attempts the save.
C20_BlankAllOrNothing ==
    [][BlankComputeStep =>
          IF \E c \in Colours : ZeroDenominator(incid, c)
          THEN /\ machine_data' = machine_data
               /\ file' = file /\ saved' = saved
          ELSE /\ \A c \in Colours :
                     machine_data'[BlankKey[c]] = ColourRatio(incid, trans, c)
               /\ saved'.done /\ saved'.before = file]_vars

C20_Witness ==
    /\ op = "blank" /\ pc = "halted" /\ crash = "ZeroDivisionError"
    /\ ~ZeroDenominator(incid, "Red") /\ ZeroDenominator(incid, "Blue")
    /\ "blank_value_red" \in DOMAIN machine_data
    /\ machine_data["blank_value_red"] # ColourRatio(incid, trans, "Red")

====
